---- MODULE Spec2Model ----
(***************************************************************************)
(* Model of the AFM image analyser: the settings-driven correction script  *)
(* (AFM_image_analyser.py) and the array routines it calls                 *)
(* (data_analysis.py).                                                     *)
(*                                                                         *)
(* Heights are rationals.  A grid is a record                              *)
(*   [err |-> "none", cells |-> <<row_1, ..., row_nx>>, den |-> d]         *)
(* whose element (i,j) has the value cells[i][j] / d, d the least common   *)
(* denominator of the elements; a call that raises                         *)
(* is the record [err |-> <exception>, cells |-> <<>>, den |-> 1].         *)
(* Least-squares solutions are computed exactly from the normal equations  *)
(* (Cramer's rule), the common determinant going into den.                 *)
(***************************************************************************)
EXTENDS Integers, Sequences, FiniteSets, TLC

\* ------------------------------------------------------------------ bounds
MaxRows == 3
MaxCols == 3
MaxVal == 1

\* ------------------------------------------------------- array primitives
RECURSIVE SumTo(_, _)
SumTo(f, n) == IF n = 0 THEN 0 ELSE f[n] + SumTo(f, n - 1)

Sum(f) == SumTo(f, Len(f))

RECURSIVE MinTo(_, _)
MinTo(f, n) == IF n = 1 THEN f[1]
               ELSE LET r == MinTo(f, n - 1) IN IF f[n] < r THEN f[n] ELSE r

Max2(a, b) == IF a >= b THEN a ELSE b
Min2(a, b) == IF a <= b THEN a ELSE b

\* height_values.ravel(): row-major flattening
Ravel(c) == [k \in 1..(Len(c) * Len(c[1])) |->
               c[((k - 1) \div Len(c[1])) + 1][((k - 1) % Len(c[1])) + 1]]

Abs(a) == IF a < 0 THEN 0 - a ELSE a

RECURSIVE Gcd(_, _)
Gcd(a, b) == IF b = 0 THEN a ELSE Gcd(b, a % b)

RECURSIVE GcdTo(_, _, _)
GcdTo(f, n, g) == IF n = 0 THEN g ELSE GcdTo(f, n - 1, Gcd(g, Abs(f[n])))

\* The array with the elements c[i][j] / d, d > 0, the fractions brought to
\* their least common denominator: equal arrays are equal records.
Grid(c, d) ==
    LET flat == Ravel(c)
        g == GcdTo(flat, Len(flat), d)
    IN [err |-> "none",
        cells |-> [i \in 1..Len(c) |-> [j \in 1..Len(c[1]) |-> c[i][j] \div g]],
        den |-> d \div g]

Raise(e) == [err |-> e, cells |-> <<>>, den |-> 1]

\* height_values.shape
Rows(h) == Len(h.cells)
Cols(h) == Len(h.cells[1])

Dot(u, v) == Sum([k \in 1..Len(u) |-> u[k] * v[k]])

Det3(m) == m[1][1] * (m[2][2] * m[3][3] - m[2][3] * m[3][2])
         - m[1][2] * (m[2][1] * m[3][3] - m[2][3] * m[3][1])
         + m[1][3] * (m[2][1] * m[3][2] - m[2][2] * m[3][1])

\* np.linalg.lstsq(A, z) for A = [x, 1]: (m, q) = (num.m, num.q) / num.d.
\* A rank-deficient system (x identically 0) gets the minimum-norm solution.
Lstsq2(x, z) ==
    LET n == Len(x)
        Sx == Sum(x)
        Sxx == Dot(x, x)
        Sz == Sum(z)
        Sxz == Dot(x, z)
        D == n * Sxx - Sx * Sx
    IN IF D = 0 THEN [d |-> n, m |-> 0, q |-> Sz]
       ELSE [d |-> D, m |-> n * Sxz - Sx * Sz, q |-> Sxx * Sz - Sx * Sxz]

\* np.linalg.lstsq(A, z) for A = [x, y, 1]: (a, b, c) = (num.a, num.b, num.c) / num.d.
Lstsq3(x, y, z) ==
    LET n == Len(x)
        Sx == Sum(x)
        Sy == Sum(y)
        Sz == Sum(z)
        Sxx == Dot(x, x)
        Syy == Dot(y, y)
        Sxy == Dot(x, y)
        Sxz == Dot(x, z)
        Syz == Dot(y, z)
        M == << <<Sxx, Sxy, Sx>>, <<Sxy, Syy, Sy>>, <<Sx, Sy, n>> >>
        D == Det3(M)
    IN IF D # 0
       THEN [d |-> D,
             a |-> Det3(<< <<Sxz, Sxy, Sx>>, <<Syz, Syy, Sy>>, <<Sz, Sy, n>> >>),
             b |-> Det3(<< <<Sxx, Sxz, Sx>>, <<Sxy, Syz, Sy>>, <<Sx, Sz, n>> >>),
             c |-> Det3(<< <<Sxx, Sxy, Sxz>>, <<Sxy, Syy, Syz>>, <<Sx, Sy, Sz>> >>)]
       ELSE IF Sxx = 0
       THEN LET r == Lstsq2(y, z) IN [d |-> r.d, a |-> 0, b |-> r.m, c |-> r.q]
       ELSE LET r == Lstsq2(x, z) IN [d |-> r.d, a |-> r.m, b |-> 0, c |-> r.q]

\* ------------------------------------------------- data_analysis routines
\* The value subtracted at position (r, c) of the (ny, nx) meshgrid arrays.
PlaneTerm(fit, r, c) == fit.a * (c - 1) + fit.b * (r - 1) + fit.c

common_plane_subtraction(h) ==
    LET nx == Rows(h)
        ny == Cols(h)
        n == nx * ny
        \* X, Y = np.meshgrid(x_ax, y_ax) have shape (ny, nx)
        x_flat == [k \in 1..n |-> (k - 1) % nx]
        y_flat == [k \in 1..n |-> (k - 1) \div nx]
        z_flat == Ravel(h.cells)
        fit == Lstsq3(x_flat, y_flat, z_flat)
        \* height_values (nx, ny) - plane (ny, nx), with numpy broadcasting
        on == Max2(nx, ny)
    IN IF nx # ny /\ nx # 1 /\ ny # 1 THEN Raise("ValueError")
       ELSE Grid([i \in 1..on |-> [j \in 1..on |->
                     fit.d * h.cells[Min2(i, nx)][Min2(j, ny)]
                       - PlaneTerm(fit, Min2(i, ny), Min2(j, nx))]],
                 h.den * fit.d)

\* The array after the first k iterations of the loop of mean_drift_subtraction.
MeanDriftRows(h, k) ==
    LET ny == Cols(h)
    IN Grid([i \in 1..Rows(h) |-> [j \in 1..ny |->
               IF i <= k THEN ny * h.cells[i][j] - Sum(h.cells[i])
               ELSE ny * h.cells[i][j]]],
            h.den * ny)

mean_drift_subtraction(h) ==
    LET nx == Rows(h)
        ny == Cols(h)
    IN IF ny > nx THEN Raise("IndexError")
       ELSE MeanDriftRows(h, ny)

\* The array after the first k iterations of the loop of line_drift_subtraction
\* (only reached when every lstsq call has compatible dimensions).
LineDriftRows(h, k) ==
    LET nx == Rows(h)
        x_ax == [j \in 1..nx |-> j - 1]
        d == Lstsq2(x_ax, h.cells[1]).d
    IN Grid([i \in 1..nx |-> [j \in 1..Cols(h) |->
               IF i <= k
               THEN LET fit == Lstsq2(x_ax, h.cells[i])
                    IN d * h.cells[i][j] - (fit.m * x_ax[j] + fit.q)
               ELSE d * h.cells[i][j]]],
            h.den * d)

line_drift_subtraction(h) ==
    LET nx == Rows(h)
        ny == Cols(h)
    IN IF nx # ny THEN Raise("LinAlgError")
       ELSE LineDriftRows(h, ny)

shift_min(h) ==
    LET flat == Ravel(h.cells)
        minimum_height == MinTo(flat, Len(flat))
    IN Grid([i \in 1..Rows(h) |-> [j \in 1..Cols(h) |->
               h.cells[i][j] - minimum_height]],
            h.den)

shift_mean(h) ==
    LET flat == Ravel(h.cells)
        n == Len(flat)
    IN Grid([i \in 1..Rows(h) |-> [j \in 1..Cols(h) |->
               n * h.cells[i][j] - Sum(flat)]],
            h.den * n)

\* The array object passed to a routine, as it is left when the call ends:
\* the two drift routines assign rows in place, the others build a new array.
ArrayAfter(name, h) ==
    CASE name = "mean_drift_subtraction" -> MeanDriftRows(h, Min2(Rows(h), Cols(h)))
      [] name = "line_drift_subtraction" ->
            IF Rows(h) = Cols(h) THEN LineDriftRows(h, Cols(h)) ELSE h
      [] OTHER -> h

Call(name, h) ==
    CASE name = "common_plane_subtraction" -> common_plane_subtraction(h)
      [] name = "mean_drift_subtraction" -> mean_drift_subtraction(h)
      [] name = "line_drift_subtraction" -> line_drift_subtraction(h)
      [] name = "shift_min" -> shift_min(h)
      [] name = "shift_mean" -> shift_mean(h)

Routines == {"common_plane_subtraction", "mean_drift_subtraction",
             "line_drift_subtraction", "shift_min", "shift_mean"}

\* ------------------------------------------------------------ input grids
\* Height grids as image.read_tiff may return them: a plane
\* z(x, y) = a*x + b*y + c over the integer indices (x the column, y the row),
\* optionally with one sample of the diagonal raised by one.
Shapes == (1..MaxRows) \X (1..MaxCols)

PlanarCells(nx, ny, a, b, c) ==
    [i \in 1..nx |-> [j \in 1..ny |-> a * (j - 1) + b * (i - 1) + c]]

Spiked(c, k) ==
    [i \in 1..Len(c) |-> [j \in 1..Len(c[1]) |->
        IF i = k /\ j = k THEN c[i][j] + 1 ELSE c[i][j]]]

InputGrids ==
    UNION { { Grid(Spiked(PlanarCells(s[1], s[2], a, b, c), k), 1) :
                a \in 0..MaxVal, b \in 0..MaxVal, c \in {0, MaxVal},
                k \in 0..Min2(s[1], s[2]) } :
            s \in Shapes }

\* --------------------------------------------------------------- settings
\* A settings value is a string, modelled as its sequence of characters.
UPPER == <<"A","B","C","D","E","F","G","H","I","J","K","L","M",
           "N","O","P","Q","R","S","T","U","V","W","X","Y","Z">>
LOWER == <<"a","b","c","d","e","f","g","h","i","j","k","l","m",
           "n","o","p","q","r","s","t","u","v","w","x","y","z">>

lower_char(ch) ==
    IF \E k \in 1..26 : UPPER[k] = ch
    THEN LOWER[CHOOSE k \in 1..26 : UPPER[k] = ch]
    ELSE ch

\* str.lower()
lower(s) == [k \in 1..Len(s) |-> lower_char(s[k])]

S_yes == <<"y","e","s">>
S_no == <<"n","o">>
S_linear == <<"l","i","n","e","a","r">>
S_mean == <<"m","e","a","n">>
S_minimum == <<"m","i","n","i","m","u","m">>

\* Values settings.json may hold for the three data_analysis fields.
CpsValues == {<<"Y","e","s">>, S_no, <<"m","a","y","b","e">>}
LdcValues == {<<"L","I","N","E","A","R">>, S_mean, S_no, <<"c","u","b","i","c">>}
DsValues == {S_minimum, <<"M","e","a","n">>, <<"I","n","v","a","l","i","d">>}

\* ------------------------------------------------------------- the script
VARIABLES pc, settings, args_results, loaded, height_values, warning_list,
          warn_channel, results_file, plots, applied, error,
          fn_pc, fn_name, fn_arg, fn_ret, fn_arr

script_vars == <<pc, settings, args_results, loaded, height_values, warning_list,
                 warn_channel, results_file, plots, applied, error>>
fn_vars == <<fn_pc, fn_name, fn_arg, fn_ret, fn_arr>>
vars == <<pc, settings, args_results, loaded, height_values, warning_list,
          warn_channel, results_file, plots, applied, error,
          fn_pc, fn_name, fn_arg, fn_ret, fn_arr>>

NoGrid == Raise("unset")
NoError == [type |-> "none", field |-> "", allowed |-> {}]
TypeError(f, a) == [type |-> "TypeError", field |-> f, allowed |-> a]
Exception(t) == [type |-> t, field |-> "", allowed |-> {}]

WARN_MSG == "Linear drift correction was requested without plane subtraction. Common plane subtraction has been applied automatically to ensure accuracy."
WARN_ENTRY == "UserWarning: Linear drift correction was requested without plane subtraction. Common plane subtraction has been applied automatically to ensure accuracy."

\* What one stage of the script does for the given settings: the routines it
\* calls in order, whether it then warns, and the error it raises instead.
Outcome(r, w, e) == [routines |-> r, warns |-> w, raises |-> e]

plane_stage(st) ==
    IF lower(st.common_plane_subtraction) = S_yes
    THEN Outcome(<<"common_plane_subtraction">>, FALSE, NoError)
    ELSE IF lower(st.common_plane_subtraction) = S_no
    THEN Outcome(<<>>, FALSE, NoError)
    ELSE Outcome(<<>>, FALSE, TypeError("common_plane_subtraction", {"yes", "no"}))

\* Variants of drift_stage, each with one slip of the dispatch.
\* The separately requested plane subtraction is not looked at.
drift_stage_no_cps_test(st) ==
    IF lower(st.line_drift_correction) \in {S_linear, S_mean}
    THEN Outcome(<<"common_plane_subtraction", "line_drift_subtraction">>,
                 TRUE, NoError)
    ELSE IF lower(st.line_drift_correction) = S_no
    THEN Outcome(<<>>, FALSE, NoError)
    ELSE Outcome(<<>>, FALSE, TypeError("linear_drift_subtraction", {"yes", "no"}))

\* The fallback of "mean" calls the row-mean routine.
drift_stage_mean_fallback(st) ==
    IF lower(st.line_drift_correction) = S_linear
    THEN IF lower(st.common_plane_subtraction) = S_yes
         THEN Outcome(<<"line_drift_subtraction">>, FALSE, NoError)
         ELSE Outcome(<<"common_plane_subtraction", "line_drift_subtraction">>,
                      TRUE, NoError)
    ELSE IF lower(st.line_drift_correction) = S_mean
    THEN IF lower(st.common_plane_subtraction) = S_yes
         THEN Outcome(<<"mean_drift_subtraction">>, FALSE, NoError)
         ELSE Outcome(<<"common_plane_subtraction", "mean_drift_subtraction">>,
                      TRUE, NoError)
    ELSE IF lower(st.line_drift_correction) = S_no
    THEN Outcome(<<>>, FALSE, NoError)
    ELSE Outcome(<<>>, FALSE, TypeError("linear_drift_subtraction", {"yes", "no"}))

\* The fallback of "mean" does not warn.
drift_stage_silent_mean(st) ==
    IF lower(st.line_drift_correction) = S_linear
    THEN IF lower(st.common_plane_subtraction) = S_yes
         THEN Outcome(<<"line_drift_subtraction">>, FALSE, NoError)
         ELSE Outcome(<<"common_plane_subtraction", "line_drift_subtraction">>,
                      TRUE, NoError)
    ELSE IF lower(st.line_drift_correction) = S_mean
    THEN IF lower(st.common_plane_subtraction) = S_yes
         THEN Outcome(<<"mean_drift_subtraction">>, FALSE, NoError)
         ELSE Outcome(<<"common_plane_subtraction", "line_drift_subtraction">>,
                      FALSE, NoError)
    ELSE IF lower(st.line_drift_correction) = S_no
    THEN Outcome(<<>>, FALSE, NoError)
    ELSE Outcome(<<>>, FALSE, TypeError("linear_drift_subtraction", {"yes", "no"}))

\* An unrecognised value is rejected only after the row fit has run.
drift_stage_fit_then_raise(st) ==
    IF lower(st.line_drift_correction) = S_linear
    THEN IF lower(st.common_plane_subtraction) = S_yes
         THEN Outcome(<<"line_drift_subtraction">>, FALSE, NoError)
         ELSE Outcome(<<"common_plane_subtraction", "line_drift_subtraction">>,
                      TRUE, NoError)
    ELSE IF lower(st.line_drift_correction) = S_mean
    THEN IF lower(st.common_plane_subtraction) = S_yes
         THEN Outcome(<<"mean_drift_subtraction">>, FALSE, NoError)
         ELSE Outcome(<<"common_plane_subtraction", "line_drift_subtraction">>,
                      TRUE, NoError)
    ELSE IF lower(st.line_drift_correction) = S_no
    THEN Outcome(<<>>, FALSE, NoError)
    ELSE Outcome(<<"common_plane_subtraction">>, FALSE,
                 TypeError("linear_drift_subtraction", {"yes", "no"}))

drift_stage(st) ==
    IF lower(st.line_drift_correction) = S_linear
    THEN IF lower(st.common_plane_subtraction) = S_yes
         THEN Outcome(<<"line_drift_subtraction">>, FALSE, NoError)
         ELSE Outcome(<<"common_plane_subtraction", "line_drift_subtraction">>,
                      TRUE, NoError)
    ELSE IF lower(st.line_drift_correction) = S_mean
    THEN IF lower(st.common_plane_subtraction) = S_yes
         THEN Outcome(<<"mean_drift_subtraction">>, FALSE, NoError)
         ELSE Outcome(<<"common_plane_subtraction", "line_drift_subtraction">>,
                      TRUE, NoError)
    ELSE IF lower(st.line_drift_correction) = S_no
    THEN Outcome(<<>>, FALSE, NoError)
    ELSE Outcome(<<>>, FALSE, TypeError("linear_drift_subtraction", {"yes", "no"}))

shift_stage(st) ==
    IF lower(st.data_shift) = S_minimum
    THEN Outcome(<<"shift_min">>, FALSE, NoError)
    ELSE IF lower(st.data_shift) = S_mean
    THEN Outcome(<<"shift_mean">>, FALSE, NoError)
    ELSE Outcome(<<>>, FALSE, TypeError("data_shift", {"minimum", "mean"}))

\* height_values = data_analysis.<routine>(height_values), one routine after
\* the other, stopping at the first call that raises.
RECURSIVE RunRoutines(_, _, _)
RunRoutines(names, k, acc) ==
    IF k > Len(names) \/ acc.err # "none" THEN acc
    ELSE LET r == Call(names[k], acc.hv)
         IN IF r.err # "none"
            THEN RunRoutines(names, k + 1, [acc EXCEPT !.err = r.err])
            ELSE RunRoutines(names, k + 1,
                             [acc EXCEPT !.hv = r, !.done = Append(@, names[k])])

Stage(here, o, next) ==
    /\ pc = here
    /\ LET run == RunRoutines(o.routines, 1,
                              [hv |-> height_values, done |-> <<>>, err |-> "none"])
           ok == run.err = "none" /\ o.raises = NoError
       IN /\ height_values' = run.hv
          /\ applied' = applied \o run.done
          /\ error' = IF run.err # "none" THEN Exception(run.err) ELSE o.raises
          /\ pc' = IF ok THEN next ELSE "error"
          /\ warn_channel' = IF ok /\ o.warns
                             THEN Append(warn_channel,
                                         [category |-> "UserWarning", message |-> WARN_MSG])
                             ELSE warn_channel
          /\ warning_list' = IF ok /\ o.warns
                             THEN Append(warning_list, WARN_ENTRY)
                             ELSE warning_list
    /\ UNCHANGED <<settings, args_results, loaded, results_file, plots>>
    /\ UNCHANGED fn_vars

\* rg.ResultsGenerator(): a writer that is not open and holds nothing.
ResultsGenerator == [opened |-> FALSE, closed |-> FALSE, written |-> <<>>]
\* ResultsGenerator.setup(path)
rg_setup(w) == [w EXCEPT !.opened = TRUE]
\* ResultsGenerator.close()
rg_close(w) == [w EXCEPT !.closed = TRUE]

Init ==
    /\ pc = "setup"
    /\ settings \in [common_plane_subtraction : CpsValues,
                     line_drift_correction : LdcValues,
                     data_shift : DsValues]
    /\ args_results \in BOOLEAN
    /\ loaded \in InputGrids
    /\ height_values = loaded
    /\ warning_list = <<>>
    /\ warn_channel = <<>>
    /\ results_file = ResultsGenerator
    /\ plots = <<>>
    /\ applied = <<>>
    /\ error = NoError
    /\ fn_pc = "idle"
    /\ fn_name = "none"
    /\ fn_arg = NoGrid
    /\ fn_ret = NoGrid
    /\ fn_arr = NoGrid

Setup ==
    /\ pc = "setup"
    /\ results_file' = IF args_results THEN rg_setup(results_file) ELSE results_file
    /\ pc' = "plane"
    /\ UNCHANGED <<settings, args_results, loaded, height_values, warning_list,
                   warn_channel, plots, applied, error>>
    /\ UNCHANGED fn_vars

PlaneStage == Stage("plane", plane_stage(settings), "drift")

DriftStage == Stage("drift", drift_stage(settings), "shift")

ShiftStage == Stage("shift", shift_stage(settings), "plot_2d")

Plot(here, kind, next) ==
    /\ pc = here
    /\ plots' = Append(plots, [kind |-> kind, grid |-> height_values])
    /\ pc' = next
    /\ UNCHANGED <<settings, args_results, loaded, height_values, warning_list,
                   warn_channel, results_file, applied, error>>
    /\ UNCHANGED fn_vars

Plot2D == Plot("plot_2d", "2d", "plot_3d")

Plot3D == Plot("plot_3d", "3d", "close")

Close ==
    /\ pc = "close"
    /\ results_file' = rg_close(results_file)
    /\ pc' = "done"
    /\ UNCHANGED <<settings, args_results, loaded, height_values, warning_list,
                   warn_channel, plots, applied, error>>
    /\ UNCHANGED fn_vars

Next == Setup \/ PlaneStage \/ DriftStage \/ ShiftStage \/ Plot2D \/ Plot3D \/ Close

Spec == Init /\ [][Next]_vars

\* ------------------------------------------- the routines called directly
InitFn ==
    /\ pc = "idle"
    /\ settings = [common_plane_subtraction |-> S_no,
                   line_drift_correction |-> S_no,
                   data_shift |-> S_minimum]
    /\ args_results = FALSE
    /\ loaded = NoGrid
    /\ height_values = NoGrid
    /\ warning_list = <<>>
    /\ warn_channel = <<>>
    /\ results_file = ResultsGenerator
    /\ plots = <<>>
    /\ applied = <<>>
    /\ error = NoError
    /\ fn_pc = "ready"
    /\ fn_name \in Routines
    /\ fn_arg \in InputGrids
    /\ fn_ret = NoGrid
    /\ fn_arr = fn_arg

CallRoutine ==
    /\ fn_pc = "ready"
    /\ fn_ret' = Call(fn_name, fn_arg)
    /\ fn_arr' = ArrayAfter(fn_name, fn_arg)
    /\ fn_pc' = "returned"
    /\ UNCHANGED <<fn_name, fn_arg>>
    /\ UNCHANGED script_vars

NextFn == CallRoutine

SpecFn == InitFn /\ [][NextFn]_vars

\* ----------------------------------------------------------------- claims
\* The enumerated sets of the three settings fields.
CpsSet == {S_yes, S_no}
LdcSet == {S_linear, S_mean, S_no}
DsSet == {S_minimum, S_mean}

CpsValid == lower(settings.common_plane_subtraction) \in CpsSet
LdcValid == lower(settings.line_drift_correction) \in LdcSet
DsValid == lower(settings.data_shift) \in DsSet
AllValid == CpsValid /\ LdcValid /\ DsValid

\* The field whose check raises: the first one, in stage order, that is invalid.
OffendingField ==
    IF ~CpsValid THEN "common_plane_subtraction"
    ELSE IF ~LdcValid THEN "line_drift_correction"
    ELSE "data_shift"

AllowedValues(f) ==
    CASE f = "common_plane_subtraction" -> {"yes", "no"}
      [] f = "line_drift_correction" -> {"linear", "mean", "no"}
      [] f = "data_shift" -> {"minimum", "mean"}

ConfigurationError == pc = "error" /\ error.type = "TypeError"
Rendering == pc \in {"plot_2d", "plot_3d", "close", "done"}
Started == pc # "idle"

\* Equality of two grids as arrays of rationals.
SameGrid(g, h) ==
    /\ g.err = "none" /\ h.err = "none"
    /\ Rows(g) = Rows(h) /\ Cols(g) = Cols(h)
    /\ \A i \in 1..Rows(g) : \A j \in 1..Cols(g) :
          g.cells[i][j] * h.den = h.cells[i][j] * g.den

SameShape(g, h) ==
    /\ g.err = "none" /\ h.err = "none"
    /\ Rows(g) = Rows(h) /\ Cols(g) = Cols(h)

PlaneName == "common_plane_subtraction"
DriftNames == {"line_drift_subtraction", "mean_drift_subtraction"}
ShiftNames == {"shift_min", "shift_mean"}

\* The call sequences of a complete run: [plane] [one drift routine] one shift.
StageOrders ==
    { p \o d \o s : p \in {<<>>, <<PlaneName>>},
                    d \in {<<>>} \cup { <<n>> : n \in DriftNames },
                    s \in { <<n>> : n \in ShiftNames } }

IsPrefix(u, v) == Len(u) <= Len(v) /\ \A k \in 1..Len(u) : u[k] = v[k]

\* C1: a settings value outside its enumerated set (case-insensitively) ends
\* the run in a configuration error with the renderer never invoked, and with
\* all three values inside their sets the run raises no configuration error
\* and is not stopped before rendering.
C1_ValidationDecidesRendering ==
    Started =>
      /\ ~AllValid => /\ ~Rendering /\ plots = <<>>
                      /\ pc = "error" => error.type = "TypeError"
      /\ AllValid => pc # "error"

\* C1 without the last conjunct: what the settings checks alone guarantee.
C1_ConfigurationErrorIffInvalid ==
    Started =>
      /\ ~AllValid => ~Rendering /\ plots = <<>>
      /\ AllValid => error.type # "TypeError"

\* C2: the routines applied to the height grid follow the order plane
\* subtraction, drift correction, vertical shift: at any time the calls made
\* are a prefix of [plane] [one drift routine] <one shift>, and when the
\* renderer is reached the sequence is complete, ends with the single shift,
\* and the renderer receives the grid that shift returned.
C2_StageOrder ==
    Started =>
      /\ \E o \in StageOrders : IsPrefix(applied, o)
      /\ Rendering => /\ applied \in StageOrders
                      /\ \A k \in 1..Len(plots) : plots[k].grid = height_values

C2_Witness ==
    /\ pc = "done"
    /\ applied = <<"common_plane_subtraction", "mean_drift_subtraction", "shift_mean">>
    /\ Len(plots) = 2

VerticalShift(h) ==
    IF lower(settings.data_shift) = S_minimum THEN shift_min(h) ELSE shift_mean(h)

FallbackRequested ==
    /\ lower(settings.common_plane_subtraction) = S_no
    /\ lower(settings.line_drift_correction) \in {S_linear, S_mean}

\* C3: with common_plane_subtraction=no and line_drift_correction linear or
\* mean, the grid handed to the renderer is
\* shift(line_drift_subtraction(common_plane_subtraction(G))) and the calls
\* are exactly plane, linear row fit, shift; with common_plane_subtraction=yes
\* the drift stage calls the selected routine after the single plane
\* subtraction.
C3_FallbackDispatch ==
    Rendering =>
      /\ FallbackRequested =>
           /\ SameGrid(height_values,
                 VerticalShift(line_drift_subtraction(common_plane_subtraction(loaded))))
           /\ SubSeq(applied, 1, 2) = <<"common_plane_subtraction", "line_drift_subtraction">>
           /\ Len(applied) = 3
      /\ lower(settings.common_plane_subtraction) = S_yes =>
           /\ lower(settings.line_drift_correction) = S_linear =>
                /\ SameGrid(height_values,
                      VerticalShift(line_drift_subtraction(common_plane_subtraction(loaded))))
                /\ SubSeq(applied, 1, 2) = <<"common_plane_subtraction", "line_drift_subtraction">>
                /\ Len(applied) = 3
           /\ lower(settings.line_drift_correction) = S_mean =>
                /\ SameGrid(height_values,
                      VerticalShift(mean_drift_subtraction(common_plane_subtraction(loaded))))
                /\ SubSeq(applied, 1, 2) = <<"common_plane_subtraction", "mean_drift_subtraction">>
                /\ Len(applied) = 3

\* A fallback run with "mean" selected on a grid whose rows keep a slope after
\* the plane subtraction, so that the two drift routines give different grids.
C3_Witness ==
    /\ pc = "done"
    /\ FallbackRequested
    /\ Rows(loaded) = Cols(loaded)
    /\ lower(settings.line_drift_correction) = S_mean
    /\ Len(plots) = 2
    /\ ~SameGrid(plots[1].grid,
                 VerticalShift(mean_drift_subtraction(common_plane_subtraction(loaded))))

SpecWarningText == "Linear drift correction was requested without plane subtraction. Common plane subtraction has been applied automatically to ensure accuracy."
PrefixedWarningText == "UserWarning: Linear drift correction was requested without plane subtraction. Common plane subtraction has been applied automatically to ensure accuracy."

\* The drift stage has returned.
DriftDone ==
    \/ Rendering
    \/ pc = "shift"
    \/ ConfigurationError /\ CpsValid /\ LdcValid

\* C4 as stated: after a fallback the WarningLog holds exactly one entry whose
\* text is exactly the warning text, and the live channel got it once.
C4_Original ==
    (FallbackRequested /\ DriftDone) =>
      /\ warning_list = <<SpecWarningText>>
      /\ warn_channel = <<[category |-> "UserWarning", message |-> SpecWarningText]>>

\* C4 amended: when drift correction (linear or mean) is requested with
\* common_plane_subtraction=no, at most one entry is ever appended to the
\* WarningLog, exactly one once the drift stage has returned, and its text is
\* the warning text preceded by "UserWarning: "; the live channel gets the
\* unprefixed text once, as a UserWarning.
C4_PrefixedEntry ==
    (Started /\ FallbackRequested) =>
      /\ Len(warning_list) <= 1 /\ Len(warn_channel) <= 1
      /\ DriftDone =>
           /\ warning_list = <<PrefixedWarningText>>
           /\ warn_channel = <<[category |-> "UserWarning", message |-> SpecWarningText]>>

C4_Witness ==
    /\ pc = "done"
    /\ FallbackRequested
    /\ lower(settings.line_drift_correction) = S_mean
    /\ Len(warning_list) = 1

\* C5 as stated: a run that ends in a configuration error has applied no
\* correction routine, has not rendered, and has not opened or written the
\* results writer.
C5_Original ==
    ConfigurationError =>
      /\ applied = <<>>
      /\ plots = <<>>
      /\ ~results_file.opened
      /\ results_file.written = <<>>

\* C5 amended: a run that ends in a configuration error has not invoked the
\* renderer and has written nothing to the results writer (which is open when
\* --results was given); the routines of the stages before the offending
\* field have been applied and no others: none for common_plane_subtraction,
\* at most the plane subtraction for line_drift_correction, no vertical shift
\* for data_shift.
C5_NoOutputOnConfigurationError ==
    ConfigurationError =>
      /\ plots = <<>>
      /\ results_file.written = <<>> /\ ~results_file.closed
      /\ results_file.opened = args_results
      /\ ~CpsValid => applied = <<>> /\ height_values = loaded
      /\ (CpsValid /\ ~LdcValid) =>
            applied = IF lower(settings.common_plane_subtraction) = S_yes
                      THEN <<PlaneName>> ELSE <<>>
      /\ \A k \in 1..Len(applied) : applied[k] \notin ShiftNames

\* A configuration error on line_drift_correction after the plane subtraction
\* ran, with the results writer open.
C5_Witness ==
    /\ ConfigurationError
    /\ OffendingField = "line_drift_correction"
    /\ applied = <<"common_plane_subtraction">>
    /\ results_file.opened

\* C6: in a completed run with --results given and the fallback warning
\* raised, every entry of the WarningLog has been written, in order, to the
\* results writer by the time it is closed.
C6_WarningsFlushed ==
    (pc = "done" /\ args_results /\ warning_list # <<>>) =>
      /\ results_file.closed
      /\ results_file.written = warning_list

\* C8: the configuration error names the offending field and lists that
\* field's allowed values.
C8_MessageNamesField ==
    ConfigurationError =>
      /\ error.field = OffendingField
      /\ error.allowed = AllowedValues(OffendingField)

Returned == fn_pc = "returned"

\* The grid is z(x, y) = a*x + b*y + c over the integer indices.
IsPlane(g, a, b, c) == g.cells = PlanarCells(Rows(g), Cols(g), a, b, c)

\* C7: common_plane_subtraction of an exactly planar grid a*x + b*y + c is the
\* constant grid c.
C7_PlaneOffsetKept ==
    (Returned /\ fn_name = "common_plane_subtraction") =>
      \A a \in 0..(MaxVal + 1), b \in 0..(MaxVal + 1), c \in 0..(MaxVal + 1) :
        IsPlane(fn_arg, a, b, c) =>
          /\ SameShape(fn_ret, fn_arg)
          /\ \A i \in 1..Rows(fn_ret) : \A j \in 1..Cols(fn_ret) :
                fn_ret.cells[i][j] = c * fn_ret.den

\* C9: every routine returns a grid of the shape of its argument.
C9_ShapePreserved ==
    Returned => SameShape(fn_ret, fn_arg)

\* e is row z minus a line m*x + q that is the least-squares line of z:
\* z - e is linear in the index, and e is orthogonal to 1 and to the index.
IsLineResidual(z, zden, e, eden) ==
    LET n == Len(z)
        fitted == [j \in 1..n |-> z[j] * eden - e[j] * zden]
    IN /\ Len(e) = n
       /\ \A j \in 1..(n - 2) : fitted[j + 2] - fitted[j + 1] = fitted[j + 1] - fitted[j]
       /\ Sum(e) = 0
       /\ Sum([j \in 1..n |-> (j - 1) * e[j]]) = 0

\* C10: the drift routines treat every row of the grid: row r of the result
\* of mean_drift_subtraction is row r of the argument minus its mean, and
\* row r of the result of line_drift_subtraction is row r of the argument
\* minus its own least-squares line.
C10_EveryRowCorrected ==
    /\ (Returned /\ fn_name = "mean_drift_subtraction") =>
          /\ SameShape(fn_ret, fn_arg)
          /\ \A r \in 1..Rows(fn_arg) : \A j \in 1..Cols(fn_arg) :
                fn_ret.cells[r][j] * fn_arg.den * Cols(fn_arg) =
                  (Cols(fn_arg) * fn_arg.cells[r][j] - Sum(fn_arg.cells[r])) * fn_ret.den
    /\ (Returned /\ fn_name = "line_drift_subtraction") =>
          /\ SameShape(fn_ret, fn_arg)
          /\ \A r \in 1..Rows(fn_arg) :
                IsLineResidual(fn_arg.cells[r], fn_arg.den, fn_ret.cells[r], fn_ret.den)

\* The same statements for the grids with as many rows as columns.
SquareArg == Rows(fn_arg) = Cols(fn_arg)

C9_ShapePreservedOnSquare ==
    (Returned /\ SquareArg) => SameShape(fn_ret, fn_arg)

C10_EveryRowCorrectedOnSquare ==
    SquareArg => C10_EveryRowCorrected

====
